---- MODULE Spec2Model ----
(***************************************************************************)
(* Model of runsc/mitigate/kubeconfig.go: the kubeconfig wrapper around a  *)
(* parsed kubelet-config.yaml (a tree of Go maps), its generic field       *)
(* accessors, and the computation of the kubeReserved.cpu value.           *)
(*                                                                         *)
(* A YAML text is a sequence of lines; a line is a record [key, val] whose *)
(* val is a scalar text, a nested block of lines, or nothing ("bare": the  *)
(* trailer line, or the flow form "{}" of an empty mapping).  A Go value   *)
(* (interface{}) is a record [kind, s, m]: kind "string" or "int" with the *)
(* text s, or kind "map" with the Go map m (a function from keys to        *)
(* values, which has no order of its keys).                                *)
(***************************************************************************)
EXTENDS Integers, Sequences, FiniteSets, TLC

VARIABLES pc, data, config, op, fields, value, cpus, ret, err, before, out

vars == <<pc, data, config, op, fields, value, cpus, ret, err, before, out>>

-----------------------------------------------------------------------------
(* Constants of kubeconfig.go.                                             *)

kubeconfigSuffix == "KUBE_SCHEDULER_CONFIG\n"
kubeReservedField == "kubeReserved"
cpuField == "cpu"
gkeCustomReservedCPU == "1060m"

-----------------------------------------------------------------------------
(* Bounds and the small sets the inputs are drawn from.                    *)

MaxCPUs == 64
MaxPathLen == 3

memoryField == "memory"
Keys == {cpuField, kubeReservedField, memoryField}
TopKeys == {kubeReservedField, memoryField}
NestedKeys == {cpuField, memoryField}
TextScalars == {gkeCustomReservedCPU, "50m", "10255"}
IntLiterals == {"10255"}
Values == {gkeCustomReservedCPU, "50m"}
CPUCounts == (0 - 1) .. MaxCPUs
Paths == UNION {[1..n -> Keys] : n \in 1..MaxPathLen}

-----------------------------------------------------------------------------
(* YAML texts.                                                             *)

Bare == [kind |-> "bare", s |-> "", sub |-> <<>>]
ScalarText(s) == [kind |-> "scalar", s |-> s, sub |-> <<>>]
BlockText(lines) == [kind |-> "block", s |-> "", sub |-> lines]
Line(k, v) == [key |-> k, val |-> v]
SuffixLine == Line(kubeconfigSuffix, Bare)
EmptyFlowLine == Line("{}", Bare)

Orderings(S) == {q \in [1..Cardinality(S) -> S] : \A i, j \in 1..Cardinality(S) : q[i] = q[j] => i = j}

NestedBlocks ==
  UNION {{[i \in 1..Cardinality(KS) |-> Line(q[i], ScalarText(f[q[i]]))] :
            q \in Orderings(KS), f \in [KS -> TextScalars]} : KS \in SUBSET NestedKeys}

TopTexts == {ScalarText(s) : s \in TextScalars} \cup {BlockText(b) : b \in NestedBlocks}

Bodies ==
  UNION {{[i \in 1..Cardinality(KS) |-> Line(q[i], f[q[i]])] :
            q \in Orderings(KS), f \in [KS -> TopTexts]} : KS \in SUBSET TopKeys}

\* The files: a body (or the flow form of the empty mapping) and the trailer.
Docs == {b \o <<SuffixLine>> : b \in Bodies \cup {<<EmptyFlowLine>>}}

\* Texts getKubeconfig also accepts: the same without the trailer.
Texts == Docs \cup Bodies

-----------------------------------------------------------------------------
(* Go values.                                                              *)

NoMap == <<>>
NilValue == [kind |-> "nil", s |-> "", m |-> NoMap]
StringValue(s) == [kind |-> "string", s |-> s, m |-> NoMap]
IntValue(s) == [kind |-> "int", s |-> s, m |-> NoMap]
MapValue(m) == [kind |-> "map", s |-> "", m |-> m]
EmptyMap == MapValue(NoMap)

\* The value reached from v by the keys of path, which must all be present.
RECURSIVE NodeAt(_, _)
NodeAt(v, path) ==
  IF path = <<>> THEN v ELSE NodeAt(v.m[Head(path)], Tail(path))

\* v with the entry at path (whose parent is a map of v) bound to node: the
\* effect of r[field] = node on the map r that the walk has reached.
\* Mutant of PutAt: the map on the way is replaced by one with the single entry.
RECURSIVE PutAtAlone(_, _, _)
PutAtAlone(v, path, node) ==
  IF path = <<>> THEN node
  ELSE LET k == Head(path)
           child == IF k \in DOMAIN v.m THEN v.m[k] ELSE EmptyMap
       IN  MapValue(k :> PutAtAlone(child, Tail(path), node))

RECURSIVE PutAt(_, _, _)
PutAt(v, path, node) ==
  IF path = <<>> THEN node
  ELSE LET k == Head(path)
           child == IF k \in DOMAIN v.m THEN v.m[k] ELSE EmptyMap
       IN  MapValue((k :> PutAt(child, Tail(path), node)) @@ v.m)

-----------------------------------------------------------------------------
(* yaml.Unmarshal and yaml.Marshal, as getKubeconfig and unpack use them.  *)

KeyRank(k) == CASE k = cpuField -> 1 [] k = kubeReservedField -> 2 [] k = memoryField -> 3 [] OTHER -> 4

\* A plain scalar resolves to an int when it reads as one, else to a string.
resolve(s) == IF s \in IntLiterals THEN IntValue(s) ELSE StringValue(s)

RECURSIVE yamlDecode(_)
yamlDecode(lines) ==
  [k \in {lines[i].key : i \in 1..Len(lines)} |->
     LET i == CHOOSE j \in 1..Len(lines) : lines[j].key = k
         v == lines[i].val
     IN  IF v.kind = "block" THEN MapValue(yamlDecode(v.sub)) ELSE resolve(v.s)]

yamlUnmarshal(lines) ==
  IF lines = <<>> \/ lines = <<EmptyFlowLine>> THEN [config |-> EmptyMap, err |-> "nil"]
  ELSE IF \E i \in 1..Len(lines) : lines[i].val.kind = "bare"
       THEN [config |-> EmptyMap, err |-> "yaml"]
       ELSE [config |-> MapValue(yamlDecode(lines)), err |-> "nil"]

\* The keys of a map in the order the encoder writes them: sorted.
SortedKeys(m) ==
  CHOOSE q \in Orderings(DOMAIN m) : \A i, j \in 1..Len(q) : i < j => KeyRank(q[i]) < KeyRank(q[j])

RECURSIVE yamlEncode(_)
yamlEncode(m) ==
  LET q == SortedKeys(m)
  IN  [i \in 1..Len(q) |->
         LET v == m[q[i]]
         IN  Line(q[i], IF v.kind = "map" THEN BlockText(yamlEncode(v.m)) ELSE ScalarText(v.s))]

yamlMarshal(v) == IF DOMAIN v.m = {} THEN <<EmptyFlowLine>> ELSE yamlEncode(v.m)

TrimSuffix(lines) ==
  IF lines # <<>> /\ lines[Len(lines)] = SuffixLine THEN SubSeq(lines, 1, Len(lines) - 1) ELSE lines

getKubeconfig(bytes) == yamlUnmarshal(TrimSuffix(bytes))

\* Mutant of unpack: the trailer is not appended.
unpackNoSuffix(cfg) == yamlMarshal(cfg)

unpack(cfg) == yamlMarshal(cfg) \o <<SuffixLine>>

-----------------------------------------------------------------------------
(* The field accessors.                                                    *)

\* The loop of getSubfield from its i-th field on: cur is where result
\* points in cfg.  Returns result, where it points, the error, and the tree
\* (which the set case may have grown).
\* Mutant of getSubfieldFrom: the get case makes new fields too.
RECURSIVE getSubfieldFromMaking(_, _, _, _, _)
getSubfieldFromMaking(cfg, flds, i, cur, get) ==
  IF i > Len(flds)
  THEN [result |-> NodeAt(cfg, cur), loc |-> cur, err |-> "nil", config |-> cfg]
  ELSE LET result == NodeAt(cfg, cur)
           field == flds[i]
       IN  IF result.kind # "map"
           THEN [result |-> NilValue, loc |-> cur, err |-> "notAMap", config |-> cfg]
           ELSE IF field \in DOMAIN result.m
           THEN getSubfieldFromMaking(cfg, flds, i + 1, Append(cur, field), get)
           ELSE getSubfieldFromMaking(PutAt(cfg, Append(cur, field), EmptyMap), flds, i + 1,
                                      Append(cur, field), get)

\* Mutant of getSubfieldFrom: a field that is not a map is made anew like a
\* missing one.
RECURSIVE getSubfieldFromOverwriting(_, _, _, _, _)
getSubfieldFromOverwriting(cfg, flds, i, cur, get) ==
  IF i > Len(flds)
  THEN [result |-> NodeAt(cfg, cur), loc |-> cur, err |-> "nil", config |-> cfg]
  ELSE LET result == NodeAt(cfg, cur)
           field == flds[i]
       IN  IF result.kind # "map"
           THEN IF get
                THEN [result |-> NilValue, loc |-> cur, err |-> "notAMap", config |-> cfg]
                ELSE getSubfieldFromOverwriting(
                       PutAt(PutAt(cfg, cur, EmptyMap), Append(cur, field), EmptyMap),
                       flds, i + 1, Append(cur, field), get)
           ELSE IF field \in DOMAIN result.m
           THEN getSubfieldFromOverwriting(cfg, flds, i + 1, Append(cur, field), get)
           ELSE IF get
           THEN [result |-> NilValue, loc |-> cur, err |-> "notExist", config |-> cfg]
           ELSE getSubfieldFromOverwriting(PutAt(cfg, Append(cur, field), EmptyMap), flds,
                                           i + 1, Append(cur, field), get)

RECURSIVE getSubfieldFrom(_, _, _, _, _)
getSubfieldFrom(cfg, flds, i, cur, get) ==
  IF i > Len(flds)
  THEN [result |-> NodeAt(cfg, cur), loc |-> cur, err |-> "nil", config |-> cfg]
  ELSE LET result == NodeAt(cfg, cur)
           field == flds[i]
       IN  IF result.kind # "map"
           THEN [result |-> NilValue, loc |-> cur, err |-> "notAMap", config |-> cfg]
           ELSE IF field \in DOMAIN result.m
           THEN getSubfieldFrom(cfg, flds, i + 1, Append(cur, field), get)
           ELSE IF get
           THEN [result |-> NilValue, loc |-> cur, err |-> "notExist", config |-> cfg]
           ELSE getSubfieldFrom(PutAt(cfg, Append(cur, field), EmptyMap), flds, i + 1,
                                Append(cur, field), get)

getSubfield(cfg, flds, get) == getSubfieldFrom(cfg, flds, 1, <<>>, get)

\* Mutant of setField: the value is written into a copy of the map.
setFieldCopy(cfg, flds, val) ==
  LET sub == getSubfield(cfg, SubSeq(flds, 1, Len(flds) - 1), FALSE)
  IN  IF sub.err # "nil" THEN [err |-> "failedToSet", config |-> sub.config]
      ELSE IF sub.result.kind # "map" THEN [err |-> "notInResult", config |-> sub.config]
      ELSE [err |-> "nil", config |-> sub.config]

setField(cfg, flds, val) ==
  LET sub == getSubfield(cfg, SubSeq(flds, 1, Len(flds) - 1), FALSE)
      field == flds[Len(flds)]
  IN  IF sub.err # "nil" THEN [err |-> "failedToSet", config |-> sub.config]
      ELSE IF sub.result.kind # "map" THEN [err |-> "notInResult", config |-> sub.config]
      ELSE [err |-> "nil", config |-> PutAt(sub.config, Append(sub.loc, field), StringValue(val))]

\* Mutant of getFieldAsString: the value is not checked to be a string.
getFieldAsStringUnchecked(cfg, flds) ==
  LET sub == getSubfield(cfg, flds, TRUE)
  IN  IF sub.err # "nil" THEN [ret |-> "", err |-> sub.err, config |-> sub.config]
      ELSE [ret |-> sub.result.s, err |-> "nil", config |-> sub.config]

getFieldAsString(cfg, flds) ==
  LET sub == getSubfield(cfg, flds, TRUE)
  IN  IF sub.err # "nil" THEN [ret |-> "", err |-> sub.err, config |-> sub.config]
      ELSE IF sub.result.kind # "string" THEN [ret |-> "", err |-> "notString", config |-> sub.config]
      ELSE [ret |-> sub.result.s, err |-> "nil", config |-> sub.config]

ReservedCPUPath == <<kubeReservedField, cpuField>>

setReservedCPU(cfg, reserved) == setField(cfg, ReservedCPUPath, reserved)

getReservedCPU(cfg) == getFieldAsString(cfg, ReservedCPUPath)

-----------------------------------------------------------------------------
(* computeReservedCPU.  A float64 is the integer number of 1/10000 units   *)
(* it holds: every value of the computation is a multiple of 0.5 below     *)
(* 2^53, so the float64 arithmetic is exact.                               *)

\* The table of ranges: percentage (in 1/10000), minCPU, maxCPU.
cpuRanges(n) ==
  << [percentage |-> 600, minCPU |-> 0, maxCPU |-> 1],
     [percentage |-> 100, minCPU |-> 1, maxCPU |-> 2],
     [percentage |-> 50, minCPU |-> 2, maxCPU |-> 4],
     [percentage |-> 25, minCPU |-> 4, maxCPU |-> n] >>

\* for i := p.minCPU; i < cpus && i < p.maxCPU; i++ { totals[i] = 1000 * p.percentage }
fillRange(totals, p, n) ==
  [i \in DOMAIN totals |->
     IF p.minCPU <= i /\ i < n /\ i < p.maxCPU THEN 1000 * p.percentage ELSE totals[i]]

RECURSIVE fillTotals(_, _, _, _)
fillTotals(totals, ranges, j, n) ==
  IF j > Len(ranges) THEN totals
  ELSE fillTotals(fillRange(totals, ranges[j], n), ranges, j + 1, n)

RECURSIVE sumFrom(_, _, _)
sumFrom(totals, i, n) == IF i >= n THEN 0 ELSE totals[i] + sumFrom(totals, i + 1, n)

\* int64(f): the conversion truncates.
int64(f) == f \div 10000

\* Mutant of aggregate: each total is truncated before it is added.
RECURSIVE truncatedSumFrom(_, _, _)
truncatedSumFrom(totals, i, n) ==
  IF i >= n THEN 0 ELSE int64(totals[i]) + truncatedSumFrom(totals, i + 1, n)

aggregatePerCore(totals, n) == truncatedSumFrom(totals, 0, n)

\* milliCPUs := 0.0; for _, total := range totals { milliCPUs += total }; int64(milliCPUs)
aggregate(totals, n) == int64(sumFrom(totals, 0, n))

Digit(d) ==
  CASE d = 0 -> "0" [] d = 1 -> "1" [] d = 2 -> "2" [] d = 3 -> "3" [] d = 4 -> "4"
    [] d = 5 -> "5" [] d = 6 -> "6" [] d = 7 -> "7" [] d = 8 -> "8" [] OTHER -> "9"

\* Mutant of FormatInt: zero has no digit.
RECURSIVE FormatIntNoZero(_)
FormatIntNoZero(n) == IF n = 0 THEN "" ELSE FormatIntNoZero(n \div 10) \o Digit(n % 10)

\* The decimal digits of n >= 0, as %d prints them.
RECURSIVE FormatInt(_)
FormatInt(n) == IF n < 10 THEN Digit(n) ELSE FormatInt(n \div 10) \o Digit(n % 10)

\* fmt.Sprintf("%dm", n)
Sprintf(n) == FormatInt(n) \o "m"

\* The general computation; make([]float64, cpus) panics on a negative length.
generalReservedCPU(cfg, n) ==
  IF n < 0 THEN [ret |-> "", err |-> "panic", config |-> cfg]
  ELSE LET totals == fillTotals([i \in 0..(n - 1) |-> 0], cpuRanges(n), 1, n)
       IN  [ret |-> Sprintf(aggregate(totals, n)), err |-> "nil", config |-> cfg]

\* Mutant of computeReservedCPU: the special case stops below two CPUs.
computeReservedCPUBelowTwo(cfg, n) ==
  IF n < 2
  THEN LET r == getReservedCPU(cfg)
       IN  IF r.err # "nil" \/ r.ret = gkeCustomReservedCPU
           THEN r
           ELSE generalReservedCPU(r.config, n)
  ELSE generalReservedCPU(cfg, n)

\* Mutant of computeReservedCPU: the error of the read is dropped.
computeReservedCPUNoErr(cfg, n) ==
  IF n <= 2
  THEN LET r == getReservedCPU(cfg)
       IN  IF r.ret = gkeCustomReservedCPU
           THEN r
           ELSE generalReservedCPU(r.config, n)
  ELSE generalReservedCPU(cfg, n)

computeReservedCPU(cfg, n) ==
  IF n <= 2
  THEN LET r == getReservedCPU(cfg)
       IN  IF r.err # "nil" \/ r.ret = gkeCustomReservedCPU
           THEN r
           ELSE generalReservedCPU(r.config, n)
  ELSE generalReservedCPU(cfg, n)

-----------------------------------------------------------------------------
(* The state machine: a kubeconfig is made from the bytes of a file, one   *)
(* of its methods is called on it, and it is written back.                 *)

Init ==
  /\ pc = "new"
  /\ data \in Docs
  /\ config = EmptyMap
  /\ op = "none"
  /\ fields = <<>>
  /\ value = ""
  /\ cpus = 0
  /\ ret = ""
  /\ err = "nil"
  /\ before = EmptyMap
  /\ out = <<>>

GetKubeconfig ==
  /\ pc = "new"
  /\ LET r == getKubeconfig(data)
     IN  /\ config' = r.config
         /\ err' = r.err
  /\ pc' = "ready"
  /\ op' = "getKubeconfig"
  /\ UNCHANGED <<data, fields, value, cpus, ret, before, out>>

Unpack ==
  /\ pc = "ready" \/ (pc = "called" /\ op = "setReservedCPU")
  /\ out' = unpack(config)
  /\ pc' = "packed"
  /\ UNCHANGED <<data, config, op, fields, value, cpus, ret, err, before>>

ComputeReservedCPU(n) ==
  /\ pc = "ready"
  /\ LET r == computeReservedCPU(config, n)
     IN  /\ ret' = r.ret
         /\ err' = r.err
         /\ config' = r.config
  /\ before' = config
  /\ cpus' = n
  /\ op' = "computeReservedCPU"
  /\ pc' = "called"
  /\ UNCHANGED <<data, fields, value, out>>

SetReservedCPU(reserved) ==
  /\ pc = "ready"
  /\ LET r == setReservedCPU(config, reserved)
     IN  /\ err' = r.err
         /\ config' = r.config
  /\ before' = config
  /\ fields' = ReservedCPUPath
  /\ value' = reserved
  /\ op' = "setReservedCPU"
  /\ pc' = "called"
  /\ UNCHANGED <<data, cpus, ret, out>>

GetReservedCPU ==
  /\ pc = "ready"
  /\ LET r == getReservedCPU(config)
     IN  /\ ret' = r.ret
         /\ err' = r.err
         /\ config' = r.config
  /\ before' = config
  /\ fields' = ReservedCPUPath
  /\ op' = "getReservedCPU"
  /\ pc' = "called"
  /\ UNCHANGED <<data, value, cpus, out>>

SetField(flds, val) ==
  /\ pc = "ready"
  /\ LET r == setField(config, flds, val)
     IN  /\ err' = r.err
         /\ config' = r.config
  /\ before' = config
  /\ fields' = flds
  /\ value' = val
  /\ op' = "setField"
  /\ pc' = "called"
  /\ UNCHANGED <<data, cpus, ret, out>>

GetFieldAsString(flds) ==
  /\ pc = "ready"
  /\ LET r == getFieldAsString(config, flds)
     IN  /\ ret' = r.ret
         /\ err' = r.err
         /\ config' = r.config
  /\ before' = config
  /\ fields' = flds
  /\ op' = "getFieldAsString"
  /\ pc' = "called"
  /\ UNCHANGED <<data, value, cpus, out>>

Next ==
  \/ GetKubeconfig
  \/ Unpack
  \/ \E n \in CPUCounts : ComputeReservedCPU(n)
  \/ \E v \in Values : SetReservedCPU(v)
  \/ GetReservedCPU
  \/ \E p \in Paths, v \in Values : SetField(p, v)
  \/ \E p \in Paths : GetFieldAsString(p)

Spec == Init /\ [][Next]_vars

\* Reading a file and writing it back, for any text getKubeconfig accepts.
InitFile ==
  /\ pc = "new"
  /\ data \in Texts
  /\ config = EmptyMap
  /\ op = "none"
  /\ fields = <<>>
  /\ value = ""
  /\ cpus = 0
  /\ ret = ""
  /\ err = "nil"
  /\ before = EmptyMap
  /\ out = <<>>

NextFile ==
  \/ GetKubeconfig
  \/ Unpack

SpecFile == InitFile /\ [][NextFile]_vars

-----------------------------------------------------------------------------
(* What the claims speak of.                                               *)

Absent == [kind |-> "absent", s |-> "", m |-> NoMap]

\* What a path resolves to in a tree: a value, or Absent when a key is
\* missing or a node on the way is not a mapping.
RECURSIVE Resolve(_, _)
Resolve(v, path) ==
  IF path = <<>> THEN v
  ELSE IF v.kind = "map" /\ Head(path) \in DOMAIN v.m
       THEN Resolve(v.m[Head(path)], Tail(path))
       ELSE Absent

Prefix(path, n) == SubSeq(path, 1, n)

\* kubeReserved.cpu in the document the operation was called on.
ReservedBefore == Resolve(before, ReservedCPUPath)

IsRead == op \in {"getFieldAsString", "getReservedCPU"}
IsSet == op \in {"setField", "setReservedCPU"}
IsCompute == op = "computeReservedCPU"

\* The contribution of core i, in tenths of a milli-CPU.
Contribution(i) == CASE i = 0 -> 600 [] i = 1 -> 100 [] i \in 2..3 -> 50 [] OTHER -> 25

RECURSIVE ContributionsBelow(_)
ContributionsBelow(n) == IF n <= 0 THEN 0 ELSE Contribution(n - 1) + ContributionsBelow(n - 1)

NoShortCircuit ==
  \/ cpus > 2
  \/ cpus \in 0..2 /\ ReservedBefore.kind = "string" /\ ReservedBefore.s # gkeCustomReservedCPU

\* C1: when the override short-circuit does not apply, computeReservedCPU
\* returns without error "<n>m", n being the integer part of the sum of the
\* per-core contributions 60, 10, 5, 5, 2.5, 2.5, ... truncated once on the
\* aggregate: 6 -> "85m", 8 -> "90m", 16 -> "110m", 32 -> "150m", 64 -> "230m".
C1_Formula ==
  (IsCompute /\ NoShortCircuit) =>
     /\ err = "nil"
     /\ ret = Sprintf(ContributionsBelow(cpus) \div 10)
     /\ cpus = 6 => ret = "85m"
     /\ cpus = 8 => ret = "90m"
     /\ cpus = 16 => ret = "110m"
     /\ cpus = 32 => ret = "150m"
     /\ cpus = 64 => ret = "230m"

C1_Witness == IsCompute /\ cpus = 6 /\ ret = "85m" /\ err = "nil"

\* C2: for every cpuCount <= 2 and every document whose kubeReserved.cpu is
\* the string "1060m", computeReservedCPU returns "1060m" and no error.
C2_Formula ==
  (IsCompute /\ cpus <= 2 /\ ReservedBefore = StringValue(gkeCustomReservedCPU)) =>
     (ret = gkeCustomReservedCPU /\ err = "nil")

C2_Witness ==
  /\ IsCompute /\ cpus = 2 /\ ReservedBefore = StringValue(gkeCustomReservedCPU)
  /\ ret = gkeCustomReservedCPU /\ ret # Sprintf(ContributionsBelow(cpus) \div 10)

\* C3 as stated: computeReservedCPU with cpuCount == 0 yields "0m" for every
\* document it is called on.
C3_Original == (IsCompute /\ cpus = 0) => (ret = "0m" /\ err = "nil")

\* C3 as amended: computeReservedCPU with cpuCount == 0 yields "0m" for
\* every document whose kubeReserved.cpu reads as a string other than
\* "1060m".
C3_Amended ==
  (IsCompute /\ cpus = 0 /\ ReservedBefore.kind = "string"
     /\ ReservedBefore.s # gkeCustomReservedCPU) => (ret = "0m" /\ err = "nil")

C3_Witness == IsCompute /\ cpus = 0 /\ ReservedBefore = StringValue("50m") /\ ret = "0m"

\* The keys of the lines are in the encoder's order, with none twice.
KeysSorted(lines) ==
  \A i, j \in 1..Len(lines) : i < j => KeyRank(lines[i].key) < KeyRank(lines[j].key)

\* A text as the encoder writes it: the flow form of the empty mapping, or
\* lines with their keys sorted at both levels.
Canonical(lines) ==
  \/ lines = <<EmptyFlowLine>>
  \/ /\ lines # <<>>
     /\ KeysSorted(lines)
     /\ \A i \in 1..Len(lines) : lines[i].val.kind # "bare" /\ KeysSorted(lines[i].val.sub)

HasTrailer == data # <<>> /\ data[Len(data)] = SuffixLine

RoundTripped == pc = "packed" /\ op = "getKubeconfig" /\ err = "nil"

C5_Original ==
  IsSet => (getFieldAsString(config, fields).err = "nil"
              /\ getFieldAsString(config, fields).ret = value)

\* C5 as amended: for any document, path p and string v, when setPath(p, v)
\* succeeds, getAsString(p) on the same document then returns v.
C5_Amended ==
  (IsSet /\ err = "nil") => (getFieldAsString(config, fields).err = "nil"
                              /\ getFieldAsString(config, fields).ret = value)

C5_Witness ==
  /\ op = "setField" /\ err = "nil" /\ Len(fields) = 3
  /\ ReservedBefore = StringValue(gkeCustomReservedCPU)
  /\ getFieldAsString(config, fields).ret = value

\* Some node that exists before the final key of fields is not a mapping.
NonMapOnTheWay ==
  \E i \in 0..(Len(fields) - 1) : Resolve(before, Prefix(fields, i)).kind \notin {"map", "absent"}

\* C6: setPath on a path with an existing node before the final key that is
\* not a mapping returns an error and leaves the document as it was.
C6_Formula == (IsSet /\ NonMapOnTheWay) => (err # "nil" /\ config = before)

C6_Witness ==
  /\ op = "setField" /\ Len(fields) = 3
  /\ Resolve(before, Prefix(fields, 2)).kind = "string"
  /\ err # "nil" /\ config = before

\* Every proper prefix of fields resolves to a mapping and fields to a string.
ResolvesToString ==
  /\ \A i \in 0..(Len(fields) - 1) : Resolve(before, Prefix(fields, i)).kind = "map"
  /\ Resolve(before, fields).kind = "string"

\* C7: getAsString succeeds exactly when every proper prefix of the path
\* resolves to a mapping and the path to a string, which it returns; else it
\* returns an error, and never crashes.
C7_Formula ==
  IsRead =>
     /\ err = "nil" <=> ResolvesToString
     /\ ResolvesToString => ret = Resolve(before, fields).s
     /\ err # "panic"

C7_Witness ==
  /\ op = "getFieldAsString" /\ Len(fields) = 2 /\ err = "nil" /\ ret = "50m"

\* C8: for every cpuCount <= 2, when kubeReserved.cpu cannot be read as a
\* string, computeReservedCPU returns the error of the read and no value.
C8_Formula ==
  (IsCompute /\ cpus <= 2 /\ ReservedBefore.kind # "string") =>
     (err # "nil" /\ err = getReservedCPU(before).err /\ ret = "")

C8_Witness == IsCompute /\ cpus = 1 /\ ReservedBefore.kind = "int" /\ err = "notString"

\* C9: the reads and computeReservedCPU leave the document as it was,
\* whether they succeed or fail.
C9_Formula == (IsRead \/ IsCompute) => config = before

C9_Witness ==
  /\ op = "getFieldAsString" /\ Len(fields) = 3 /\ err = "notExist"
  /\ Resolve(before, Prefix(fields, 1)) = Absent
  /\ config = before

\* C10: a setPath that succeeds binds the final key to the value, binds each
\* missing key on the way to a new mapping holding only the next key, and
\* leaves every key off the path, at every level, as it was.
C10_Formula ==
  (IsSet /\ err = "nil") =>
     /\ Resolve(config, fields) = StringValue(value)
     /\ \A i \in 1..(Len(fields) - 1) :
          /\ Resolve(config, Prefix(fields, i)).kind = "map"
          /\ Resolve(before, Prefix(fields, i)) = Absent =>
               DOMAIN Resolve(config, Prefix(fields, i)).m = {fields[i + 1]}
     /\ \A i \in 0..(Len(fields) - 1) :
          LET now == Resolve(config, Prefix(fields, i))
              was == Resolve(before, Prefix(fields, i))
          IN  /\ was.kind = "map" => DOMAIN now.m = DOMAIN was.m \cup {fields[i + 1]}
              /\ \A k \in Keys \ {fields[i + 1]} :
                   Resolve(config, Append(Prefix(fields, i), k))
                     = Resolve(before, Append(Prefix(fields, i), k))

C10_Witness ==
  /\ op = "setField" /\ err = "nil" /\ Len(fields) = 3
  /\ Resolve(before, Prefix(fields, 1)) = Absent
  /\ DOMAIN before.m # {}
  /\ DOMAIN Resolve(config, Prefix(fields, 1)).m = {fields[2]}

====
